---------------------------- MODULE Spec2Model ----------------------------
(***************************************************************************)
(* A model of assets/responsive-table-helper.js (ResponsiveTableHelper).   *)
(*                                                                         *)
(* One helper is constructed over one table.  listen() prepends the toggle *)
(* column, measures the minimum widths and registers the window-resize and *)
(* the toggle-click handlers; redraw() computes the positions to hide and  *)
(* applies them to the cells; addSubRow()/removeSubRow() create and delete *)
(* the detail sub-row of a row.                                            *)
(*                                                                         *)
(* Lengths are counted in half pixels, so that the fractional widths that  *)
(* jQuery 3 reports for outerWidth() exist in the model and parseInt() is  *)
(* the truncation it is in the code: Px(n) is n whole pixels.              *)
(*                                                                         *)
(* Cell positions are 0-based as in the code; TLA+ sequences are 1-based,  *)
(* so the cell at position p of a row is cells[p + 1].                     *)
(***************************************************************************)
EXTENDS Integers, Sequences, FiniteSets, TLC

\* ------------------------------------------------------------------ bounds

\* Number of columns of the table before the helper adds its own.
NbDataCols == 2
\* Number of rows of the table: one header row of th cells, then td rows.
NbRows == 2
\* Longest collapsibleColumnIndexes list that is enumerated.
MaxListLen == 3
\* Widest window, in whole pixels.
MaxWindowWidth == 4
\* The windows of the worked scenario: ScenarioMaxSteps steps of
\* ScenarioWidthStep whole pixels.
ScenarioWidthStep == 20
ScenarioMaxSteps == 30
\* Most cells of a row of the tables that addColumn is called on directly.
MaxRowCells == 3

\* ------------------------------------------------------------- input sets

Px(n) == 2 * n

\* The caller's zero-based indexes of the table's own columns.
DataCols == 0 .. (NbDataCols - 1)
\* What a priority list may hold: the columns, and one index past the last.
ListEntries == 0 .. NbDataCols
\* Cell positions of a row once the toggle column is there.
Positions == 0 .. NbDataCols
\* outerWidth() of a cell: 1px or 1.5px.
ColWidths == {Px(1), Px(1) + 1}
\* $(window).width(): whole pixels.
WindowWidths == {Px(n) : n \in 0 .. MaxWindowWidth}

SeqsUpTo(S, n) == UNION {[1 .. k -> S] : k \in 0 .. n}

Range(s) == {s[i] : i \in DOMAIN s}

\* A field that was never assigned (undefined in the code).  No hidden list
\* holds a negative position, so the value cannot be mistaken for one.
Undefined == <<-1>>

\* ------------------------------------------------------------------ state

VARIABLES
    options,                \* this.options (js:98): the caller's configuration
    colOuterWidth,          \* DOM: outerWidth() of the cell at each position
    containerOuterWidth,    \* DOM: jTableContainer.outerWidth()
    windowWidth,            \* DOM: $(window).width()
    table,                  \* DOM: the tr elements of jTable, in document order
    phase,                  \* "constructed", "listening" or "aborted"
    minWidths,              \* this.minWidths (js:229)
    columnsTotalWidth,      \* this.columnsTotalWidth (js:242)
    originalAvailableWidth, \* this.originalAvailableWidth (js:206, 237)
    initWindowWidth,        \* this.initWindowWidth (js:228)
    availableWidth,         \* this.availableWidth (js:241, 254)
    columnsToHide,          \* this.columnsToHide (js:383), Undefined until set
    redrawOutcome,          \* how the latest call of redraw ended
    uncaught                \* the handler that an uncaught exception ended, if the
                            \* latest one was: "listen", "resize", "click" or "none"

vars == <<options, colOuterWidth, containerOuterWidth, windowWidth, table, phase,
          minWidths, columnsTotalWidth, originalAvailableWidth, initWindowWidth,
          availableWidth, columnsToHide, redrawOutcome, uncaught>>

\* ------------------------------------------------------------------- DOM

\* A th or td element.  kind tells what it holds: "data" (column col of the
\* caller's table), "extra" (the cell addColumn inserted), "detail" (the
\* colspan cell of a sub row), "label" and "value" (the two cells of a
\* label/value row of the nested table).  hidden is display: none.
Cell(tag, kind, col) == [tag |-> tag, kind |-> kind, col |-> col, hidden |-> FALSE]

\* A tr of the table.  expanded is the class rth-expanded-row, sub the class
\* rth-sub-row; pairs are the tr elements of the nested table of a sub row.
Row(id, cells) ==
    [id |-> id, expanded |-> FALSE, sub |-> FALSE, cells |-> cells, pairs |-> <<>>]

\* The table the caller hands over: a header row of th, then rows of td.
InitialTable ==
    [r \in 1 .. NbRows |->
        Row(r, [c \in 1 .. NbDataCols |->
                    Cell(IF r = 1 THEN "th" ELSE "td", "data", c - 1)])]

\* The markup of the inserted cell holds the .rth-toggle-button element: the
\* default extraColumnContent (js:457) is a string, set in th and td alike.
HasButton(cell) == cell.kind = "extra"

InsertAt(s, i, e) == SubSeq(s, 1, i - 1) \o <<e>> \o SubSeq(s, i, Len(s))

RemoveAt(s, i) == SubSeq(s, 1, i - 1) \o SubSeq(s, i + 1, Len(s))

\* addColumn, one row: position as left by the rows before it.
ClampPosition(position, nbColumns) ==
    IF position > nbColumns - 1 THEN nbColumns - 1 ELSE position

AddColumnCells(cells, position) ==
    LET nbColumns == Len(cells)
        pos       == ClampPosition(position, nbColumns)
        \* jCells.eq(pos): a negative pos counts from the last cell
        target    == IF pos >= 0 THEN pos + 1 ELSE nbColumns + pos + 1
    IN  IF nbColumns = 0 \/ target < 1 \/ target > nbColumns
        THEN cells
        ELSE InsertAt(cells, target, Cell(cells[1].tag, "extra", 0))

RECURSIVE AddColumnFrom(_, _, _)
AddColumnFrom(tbl, r, position) ==
    IF r > Len(tbl) THEN tbl
    ELSE AddColumnFrom(
            [tbl EXCEPT ![r].cells = AddColumnCells(tbl[r].cells, position)],
            r + 1,
            ClampPosition(position, Len(tbl[r].cells)))

addColumn(tbl, position) == AddColumnFrom(tbl, 1, position)

\* addColumn with position null, from row r on.  null > nbColumns - 1 compares
\* 0: it holds for a tr without cells alone, which leaves -1 in position, a
\* number, for that tr and those after it; until then the clone goes after
\* the last cell (js:160-162).
RECURSIVE AppendColumnFrom(_, _)
AppendColumnFrom(tbl, r) ==
    IF r > Len(tbl) THEN tbl
    ELSE IF Len(tbl[r].cells) = 0 THEN AddColumnFrom(tbl, r, -1)
    ELSE AppendColumnFrom(
            [tbl EXCEPT ![r].cells = Append(@, Cell(@[1].tag, "extra", 0))],
            r + 1)

\* getColumnMinWidths: the outer widths of the cells of the first tr.
getColumnMinWidths(tbl) ==
    IF Len(tbl) = 0 THEN [p \in {} |-> 0]
    ELSE [p \in 0 .. (Len(tbl[1].cells) - 1) |-> colOuterWidth[p]]

RECURSIVE SumOver(_, _)
SumOver(f, S) ==
    IF S = {} THEN 0
    ELSE LET x == CHOOSE y \in S : TRUE IN f[x] + SumOver(f, S \ {x})

sum(arrObj) == SumOver(arrObj, DOMAIN arrObj)

\* parseInt of a non-negative length: the whole pixels of it.
ParseInt(x) == x - (x % 2)

\* ---------------------------------------------------------------- redraw

\* removeByValue: arr without the first entry equal to value.
RECURSIVE removeByValue(_, _)
removeByValue(arr, value) ==
    IF arr = <<>> THEN <<>>
    ELSE IF Head(arr) = value THEN Tail(arr)
    ELSE <<Head(arr)>> \o removeByValue(Tail(arr), value)

\* Object.keys(minWidths) as numbers: the integer keys in ascending order.
RECURSIVE KeysFrom(_, _)
KeysFrom(S, k) ==
    IF S = {} THEN <<>>
    ELSE IF k \in S THEN <<k>> \o KeysFrom(S \ {k}, k + 1)
    ELSE KeysFrom(S, k + 1)

Keys(obj) == KeysFrom(DOMAIN obj, 0)

\* Mutation of LoopContinues: <= for <, a column more hidden at equality.
LoopContinuesAtEqual(avail, total) == avail <= total

\* The loop test of redraw (js:341).
LoopContinues(avail, total) == avail < total

\* Mutation of Shift: pop() for shift(), the list consumed from its end.
ShiftFromEnd(list) ==
    [value |-> list[Len(list)], rest |-> SubSeq(list, 1, Len(list) - 1)]

\* collapsibleColumnIndexes.shift() on a list that is not empty (js:342).
Shift(list) == [value |-> Head(list), rest |-> Tail(list)]

\* Mutation of ShiftedIndex: the += 1 of js:347 left out.
ShiftedIndexUnshifted(entry) == entry

\* js:347: the caller's index of a column is its position less the toggle's.
ShiftedIndex(entry) == entry + 1

\* The while loop of redraw (js:341-357).  st holds the locals of redraw:
\* list (collapsibleColumnIndexes, what is left of the copy), total
\* (columnsTotalWidth), show (columnsToShow), hide (columnsToHide), steps
\* (iterations run), threw (this.error, which the prototype does not define,
\* was called: a TypeError leaves redraw).
RECURSIVE CollapseLoop(_, _, _)
CollapseLoop(mw, avail, st) ==
    IF ~LoopContinues(avail, st.total) THEN st
    ELSE IF st.list = <<>> THEN [st EXCEPT !.steps = @ + 1]
    ELSE LET nextColumnToCollapse == ShiftedIndex(Shift(st.list).value)
             rest == [st EXCEPT !.list = Shift(@).rest, !.steps = @ + 1]
         IN  IF nextColumnToCollapse \in DOMAIN mw
             THEN CollapseLoop(mw, avail,
                     [rest EXCEPT
                         !.total = @ - mw[nextColumnToCollapse],
                         !.hide  = Append(@, nextColumnToCollapse),
                         !.show  = removeByValue(@, nextColumnToCollapse)])
             ELSE [rest EXCEPT !.threw = TRUE]

CollapseStart(mw, total, list) ==
    [list |-> list, total |-> ParseInt(total), show |-> Keys(mw),
     hide |-> <<>>, steps |-> 0, threw |-> FALSE]

\* js:360-376: whether a hidden column is left for the sub rows to show.
HasColumnsToExpand(hide, filter) ==
    /\ Len(hide) # 0
    /\ \E k \in DOMAIN hide : (hide[k] - 1) \notin filter

\* js:378-380: the toggle column is hidden when there is nothing to expand.
ToggleRule(hide, filter) ==
    IF HasColumnsToExpand(hide, filter) THEN hide ELSE Append(hide, 0)

\* hideColumns, the cells of one tr: hidden exactly at the listed indexes.
HideCells(cells, hideColumnIndexes) ==
    [c \in DOMAIN cells |->
        [cells[c] EXCEPT !.hidden = ((c - 1) \in Range(hideColumnIndexes))]]

\* Mutation of hideColumns: the tr elements of the caller's table alone, as
\* jTable.find('> tbody > tr').not('.rth-sub-row') would select them.
hideColumnsOwnRows(tbl, hideColumnIndexes) ==
    [r \in DOMAIN tbl |->
        IF tbl[r].sub THEN tbl[r]
        ELSE [tbl[r] EXCEPT !.cells = HideCells(@, hideColumnIndexes)]]

\* hideColumns (js:106-116): jTable.find('tr') is every tr below the table,
\* those of the nested tables of the sub rows included.
hideColumns(tbl, hideColumnIndexes) ==
    [r \in DOMAIN tbl |->
        [tbl[r] EXCEPT
            !.cells = HideCells(@, hideColumnIndexes),
            !.pairs = [k \in DOMAIN @ |->
                          [@[k] EXCEPT !.cells = HideCells(@, hideColumnIndexes)]]]]

\* Mutation of PairHidden: index looked up in columnsToHide without the + 1.
PairHiddenUnshifted(index, filter, hide) ==
    index \in filter \/ index \notin Range(hide)

\* The test of js:290-293 and js:396-399 for the label/value row at index.
PairHidden(index, filter, hide) ==
    index \in filter \/ (index + 1) \notin Range(hide)

\* Mutation of ResizeSubRows: a sub row left with no label/value row to show
\* is taken out of the table.
ResizeSubRowsRemovingEmpty(tbl, filter, hide) ==
    SelectSeq(
        [r \in DOMAIN tbl |->
            IF tbl[r].sub
            THEN [tbl[r] EXCEPT
                     !.pairs = [k \in DOMAIN @ |->
                                   [@[k] EXCEPT !.hidden = PairHidden(k - 1, filter, hide)]]]
            ELSE tbl[r]],
        LAMBDA row : ~row.sub \/ \E k \in DOMAIN row.pairs : ~row.pairs[k].hidden)

\* js:394-405: show or hide the label/value rows of the opened sub rows.
ResizeSubRows(tbl, filter, hide) ==
    [r \in DOMAIN tbl |->
        IF tbl[r].sub
        THEN [tbl[r] EXCEPT
                 !.pairs = [k \in DOMAIN @ |->
                               [@[k] EXCEPT !.hidden = PairHidden(k - 1, filter, hide)]]]
        ELSE tbl[r]]

\* redraw (js:328-408) on the fields given: what it leaves behind.
redraw(mw, total, avail, tbl, prevHide) ==
    LET st == CollapseLoop(mw, avail,
                  CollapseStart(mw, total, options.collapsibleColumnIndexes))
    IN  IF st.threw
        THEN [threw |-> TRUE, columnsToHide |-> prevHide, table |-> tbl]
        ELSE LET hide == ToggleRule(st.hide, options.expandedColumnFilterIndexes)
             IN  [threw |-> FALSE, columnsToHide |-> hide,
                  table |-> ResizeSubRows(hideColumns(tbl, hide),
                                          options.expandedColumnFilterIndexes, hide)]

\* -------------------------------------------------------------- sub rows

\* jTr.next('tr') has the class rth-sub-row (js:279-280, js:316-317).
NextIsSubRow(tbl, i) == i + 1 <= Len(tbl) /\ tbl[i + 1].sub

\* jTr.find('> td').not(":first"): the td cells of the row but the first.
SubRowSources(cells) ==
    LET tds == SelectSeq(cells, LAMBDA c : c.tag = "td")
    IN  IF tds = <<>> THEN <<>> ELSE Tail(tds)

\* The || of js:290-293 reads columnsToHide only for an index the filter does
\* not list: reading indexOf of an undefined columnsToHide is a TypeError.
AddSubRowThrows(sources, filter, hide) ==
    /\ hide = Undefined
    /\ \E k \in DOMAIN sources : (k - 1) \notin filter

\* The tr.rth-sub-row built by js:285-308: one td holding the nested table.
SubRowOf(sources, filter, hide) ==
    [id       |-> 0,
     expanded |-> FALSE,
     sub      |-> TRUE,
     cells    |-> <<Cell("td", "detail", 0)>>,
     pairs    |-> [k \in DOMAIN sources |->
                     [hidden |-> PairHidden(k - 1, filter, hide),
                      cells  |-> <<Cell("td", "label", k - 1),
                                   Cell("td", "value", sources[k].col)>>]]]

\* addSubRow (js:277-310) on the tr at place i of the table.
addSubRow(tbl, i, hide) ==
    LET sources == SubRowSources(tbl[i].cells)
        filter  == options.expandedColumnFilterIndexes
    IN  IF NextIsSubRow(tbl, i) THEN [threw |-> FALSE, table |-> tbl]
        ELSE IF AddSubRowThrows(sources, filter, hide)
        THEN [threw |-> TRUE, table |-> tbl]
        ELSE [threw |-> FALSE,
              table |-> InsertAt(tbl, i + 1, SubRowOf(sources, filter, hide))]

\* removeSubRow (js:315-320).
removeSubRow(tbl, i) ==
    IF NextIsSubRow(tbl, i) THEN RemoveAt(tbl, i + 1) ELSE tbl

\* ------------------------------------------------------------------ Init

\* options.padding: "auto", or a number of pixels.
Paddings == {[auto |-> TRUE, value |-> 0], [auto |-> FALSE, value |-> Px(0)]}

\* A helper constructed over a table that listen() has not yet prepared.  The
\* inputs are the caller's options and what the DOM will report: the outer
\* width of each cell position (that of the inserted cell, which holds the
\* button alone, is 1px), the width of the window, and that of the container,
\* which spans the window.  The fields that listen() and redraw() assign are
\* not yet set; none is read before listen() sets it, but columnsToHide.
Init ==
    /\ options \in [collapsibleColumnIndexes : SeqsUpTo(ListEntries, MaxListLen),
                    expandedColumnFilterIndexes : SUBSET DataCols,
                    padding : Paddings]
    /\ colOuterWidth \in {f \in [Positions -> ColWidths] : f[0] = Px(1)}
    /\ windowWidth \in WindowWidths
    /\ containerOuterWidth = windowWidth
    /\ table = InitialTable
    /\ phase = "constructed"
    /\ minWidths = [p \in {} |-> 0]
    /\ columnsTotalWidth = 0
    /\ originalAvailableWidth = 0
    /\ initWindowWidth = 0
    /\ availableWidth = 0
    /\ columnsToHide = Undefined
    /\ redrawOutcome = "none"
    /\ uncaught = "none"

\* --------------------------------------------------------------- actions

\* The padding of js:231-236: for "auto" the for-in loop leaves the width of
\* the last key of minWidths, the integer keys being visited in ascending
\* order.
PaddingOf(mw) ==
    IF options.padding.auto
    THEN LET keys == Keys(mw) IN mw[keys[Len(keys)]]
    ELSE options.padding.value

\* listen (js:202-271).  When redraw throws, listen is left before the
\* handlers of js:251 and js:258 are registered.
Listen ==
    /\ phase = "constructed"
    /\ \E tbl \in {addColumn(table, 0)} :
       \E mw \in {getColumnMinWidths(tbl)} :
       \E avail \in {containerOuterWidth - PaddingOf(mw)} :
       \E total \in {sum(mw)} :
          /\ initWindowWidth' = windowWidth
          /\ minWidths' = mw
          /\ originalAvailableWidth' = avail
          /\ availableWidth' = avail
          /\ columnsTotalWidth' = total
          /\ IF avail < total
             THEN \E drawn \in {redraw(mw, total, avail, tbl, columnsToHide)} :
                     /\ table' = drawn.table
                     /\ columnsToHide' = drawn.columnsToHide
                     /\ redrawOutcome' = IF drawn.threw THEN "threw" ELSE "done"
                     /\ uncaught' = IF drawn.threw THEN "listen" ELSE "none"
                     /\ phase' = IF drawn.threw THEN "aborted" ELSE "listening"
             ELSE /\ table' = tbl
                  /\ columnsToHide' = columnsToHide
                  /\ redrawOutcome' = redrawOutcome
                  /\ uncaught' = "none"
                  /\ phase' = "listening"
    /\ UNCHANGED <<options, colOuterWidth, containerOuterWidth, windowWidth>>

\* js:253-254.
ResizedAvailableWidth(orig, init, windowNewSize) ==
    LET sizeOffset == init - windowNewSize IN orig - sizeOffset

\* The window is resized to windowNewSize: the handler of js:251-256.
Resize(windowNewSize) ==
    /\ phase = "listening"
    /\ windowWidth' = windowNewSize
    /\ \E avail \in {ResizedAvailableWidth(originalAvailableWidth, initWindowWidth,
                                          windowNewSize)} :
       \E drawn \in {redraw(minWidths, columnsTotalWidth, avail, table,
                            columnsToHide)} :
          /\ availableWidth' = avail
          /\ table' = drawn.table
          /\ columnsToHide' = drawn.columnsToHide
          /\ redrawOutcome' = IF drawn.threw THEN "threw" ELSE "done"
          /\ uncaught' = IF drawn.threw THEN "resize" ELSE "none"
    /\ UNCHANGED <<options, colOuterWidth, containerOuterWidth, phase, minWidths,
                   columnsTotalWidth, originalAvailableWidth, initWindowWidth>>

\* The tr holds a .rth-toggle-button element.
HasToggleButton(tr) == \E c \in DOMAIN tr.cells : HasButton(tr.cells[c])

\* The .rth-toggle-button of the tr at place i is clicked: the handler of
\* js:258-269.  The class is set before addSubRow is called, and stays when
\* addSubRow throws.  jQuery runs the delegated handler for any click event
\* on the button, shown or not.
Click(i) ==
    /\ phase = "listening"
    /\ i \in DOMAIN table
    /\ HasToggleButton(table[i])
    /\ IF ~table[i].expanded
       THEN \E added \in {addSubRow([table EXCEPT ![i].expanded = TRUE], i,
                                    columnsToHide)} :
               /\ table' = added.table
               /\ uncaught' = IF added.threw THEN "click" ELSE "none"
       ELSE /\ table' = removeSubRow([table EXCEPT ![i].expanded = FALSE], i)
            /\ uncaught' = "none"
    /\ UNCHANGED <<options, colOuterWidth, containerOuterWidth, windowWidth, phase,
                   minWidths, columnsTotalWidth, originalAvailableWidth,
                   initWindowWidth, availableWidth, columnsToHide, redrawOutcome>>

Next ==
    \/ Listen
    \/ \E w \in WindowWidths : Resize(w)
    \/ \E i \in 1 .. (2 * NbRows) : Click(i)

Spec == Init /\ [][Next]_vars

\* ------------------------------------------------- vocabulary of the claims

list == options.collapsibleColumnIndexes

filter == options.expandedColumnFilterIndexes

\* The positions of this.columnsToHide; none while it is undefined.
HiddenSet == IF columnsToHide = Undefined THEN {} ELSE Range(columnsToHide)

\* The hidden positions but the toggle column's.
HiddenDataPositions == {p \in HiddenSet : p >= 1}

\* The tr elements of the caller's table: not the sub rows.
MainRows == {r \in DOMAIN table : ~table[r].sub}

\* The positions whose cell is display: none in the tr at place r.
HiddenCellsOf(r) == {c - 1 : c \in {d \in DOMAIN table[r].cells : table[r].cells[d].hidden}}

\* Available widths to quantify over: from below nothing to the widest window.
AvailRange == (0 - Px(1)) .. Px(MaxWindowWidth)

\* What a run of redraw at available width w hides, if it completes.
HiddenAt(w) ==
    LET st == CollapseLoop(minWidths, w, CollapseStart(minWidths, columnsTotalWidth, list))
    IN  IF st.threw THEN {} ELSE Range(ToggleRule(st.hide, filter))

\* Column c (the caller's index) is hidden by redraw for some available width.
EverHidden(c) == \E w \in AvailRange : (c + 1) \in HiddenAt(w)

FirstOccurrence(i) == \A k \in 1 .. (i - 1) : list[k] # list[i]

\* ------------------------------------------------------------------- C1

\* C1 as stated: if column A precedes column B in collapsibleColumnIndexes
\* and each is hidden by redraw for some available width, then whenever
\* redraw's hidden set contains B it contains A.
C1_MonotonicByListOrder ==
    \A i, j \in DOMAIN list :
        (/\ i < j
         /\ EverHidden(list[i]) /\ EverHidden(list[j])
         /\ (list[j] + 1) \in HiddenSet)
        => (list[i] + 1) \in HiddenSet

\* C1 amended: if the first occurrence of column A precedes the first
\* occurrence of column B in collapsibleColumnIndexes and each is hidden by
\* redraw for some available width, then whenever redraw's hidden set contains
\* B it contains A.
C1_MonotonicByFirstOccurrence ==
    \A i, j \in DOMAIN list :
        (/\ i < j /\ FirstOccurrence(i) /\ FirstOccurrence(j)
         /\ EverHidden(list[i]) /\ EverHidden(list[j])
         /\ (list[j] + 1) \in HiddenSet)
        => (list[i] + 1) \in HiddenSet

\* A completed run of redraw hid a column B that another column A precedes
\* in the list (and so A with it), at a width that a wider one had fitted.
C1_Witness ==
    /\ redrawOutcome = "done"
    /\ availableWidth < originalAvailableWidth
    /\ \E i, j \in DOMAIN list :
          /\ i < j /\ FirstOccurrence(i) /\ FirstOccurrence(j)
          /\ (list[j] + 1) \in HiddenSet
          /\ (list[i] + 1) \in HiddenSet

\* ------------------------------------------------------------------- C2

\* C2 as stated: the hidden set holds no column that is absent from
\* collapsibleColumnIndexes: a position p is in it only if p - 1 is an entry
\* of the list.
C2_OnlyListedPositionsHidden ==
    /\ \A p \in HiddenSet : (p - 1) \in Range(list)
    /\ \A r \in MainRows : \A p \in HiddenCellsOf(r) : (p - 1) \in Range(list)

\* C2 amended: the hidden set holds no column of the caller's table that is
\* absent from collapsibleColumnIndexes: a position p >= 1 is in it, and a
\* cell at position p >= 1 is hidden, only if p - 1 is an entry of the list;
\* position 0, the toggle column, is no entry and is hidden by the toggle
\* rule.
C2_OnlyListedDataColumnsHidden ==
    /\ \A p \in HiddenSet : p >= 1 => (p - 1) \in Range(list)
    /\ \A r \in MainRows :
          \A p \in HiddenCellsOf(r) : p >= 1 => (p - 1) \in Range(list)

\* The minimum widths of the positions a completed redraw left shown.
ShownWidth == SumOver(minWidths, DOMAIN minWidths \ HiddenSet)

\* A completed run of redraw hid every listed column and left a column that
\* the list does not hold shown, although the table still does not fit.
C2_Witness ==
    /\ redrawOutcome = "done"
    /\ HiddenDataPositions # {}
    /\ \E d \in DataCols : d \notin Range(list) /\ (d + 1) \notin HiddenSet
    /\ availableWidth < ShownWidth

\* ------------------------------------------------------------------- C3

\* The running total of redraw once the first k entries of the list are
\* consumed: it starts from the whole pixels of columnsTotalWidth (js:332)
\* and loses the minimum width of each entry, one that has none counting for
\* nothing.
RECURSIVE RunningTotal(_)
RunningTotal(k) ==
    IF k = 0 THEN ParseInt(columnsTotalWidth)
    ELSE RunningTotal(k - 1)
         - (IF (list[k] + 1) \in DOMAIN minWidths THEN minWidths[list[k] + 1] ELSE 0)

Sufficient(k) == RunningTotal(k) <= availableWidth

\* The length of the shortest sufficient prefix; of the list when none is.
ShortestPrefix ==
    IF \E k \in 0 .. Len(list) : Sufficient(k)
    THEN CHOOSE k \in 0 .. Len(list) :
            Sufficient(k) /\ \A m \in 0 .. (k - 1) : ~Sufficient(m)
    ELSE Len(list)

\* The columns of the shortest sufficient prefix, as positions.
PrefixPositions ==
    {list[i] + 1 : i \in 1 .. ShortestPrefix} \cap DOMAIN minWidths

\* C3: after a run of redraw the hidden data columns are the +1-shifted
\* entries of the shortest prefix of collapsibleColumnIndexes whose removal
\* brings the running total to <= availableWidth, or of the whole list when
\* no prefix suffices, and no candidate beyond that prefix is hidden; the
\* cells of every row are hidden accordingly.
C3_ShortestSufficientPrefix ==
    redrawOutcome # "none" =>
        /\ HiddenDataPositions = PrefixPositions
        /\ \A r \in MainRows : HiddenCellsOf(r) \ {0} = PrefixPositions

\* C3 on the runs of redraw that complete: the same statement for the hidden
\* set that the latest run computed.
C3_ShortestSufficientPrefixWhenDone ==
    redrawOutcome = "done" =>
        /\ HiddenDataPositions = PrefixPositions
        /\ \A r \in MainRows : HiddenCellsOf(r) \ {0} = PrefixPositions

\* A completed run of redraw stopped inside the list: a prefix is hidden and
\* the next candidate, a column of the table, is shown.
C3_Witness ==
    /\ redrawOutcome = "done"
    /\ 0 < ShortestPrefix /\ ShortestPrefix < Len(list)
    /\ (list[ShortestPrefix + 1] + 1) \in DOMAIN minWidths
    /\ (list[ShortestPrefix + 1] + 1) \notin HiddenSet

\* ------------------------------------------------------------------- C4

\* A hidden data column that the detail filter does not exclude.
SomethingToExpand == \E p \in HiddenDataPositions : (p - 1) \notin filter

\* C4: after every run of redraw the toggle column (position 0) is in the
\* hidden set if and only if no hidden data column p has p - 1 outside
\* expandedColumnFilterIndexes; the toggle cell of every row is shown exactly
\* when a column is hidden that the filter does not exclude.
C4_ToggleRule ==
    redrawOutcome # "none" =>
        /\ (0 \in HiddenSet) <=> ~SomethingToExpand
        /\ \A r \in MainRows : (0 \in HiddenCellsOf(r)) <=> ~SomethingToExpand

\* C4 wherever a hidden set exists.
C4_ToggleRuleWhenDefined ==
    columnsToHide # Undefined =>
        /\ (0 \in HiddenSet) <=> ~SomethingToExpand
        /\ \A r \in MainRows : (0 \in HiddenCellsOf(r)) <=> ~SomethingToExpand

\* Columns are hidden, the filter excludes each of them, and the toggle
\* column is hidden with them.
C4_Witness ==
    /\ redrawOutcome = "done"
    /\ HiddenDataPositions # {}
    /\ ~SomethingToExpand
    /\ 0 \in HiddenSet

\* ------------------------------------------------------------------- C5

\* C5: with an empty collapsibleColumnIndexes, at every point after listen()
\* has run the hidden set is the toggle column alone, whatever the available
\* width: the toggle cell of every row is hidden and no data cell is.
C5_EmptyListHidesToggleOnly ==
    (phase = "listening" /\ list = <<>>) =>
        /\ HiddenSet = {0}
        /\ \A r \in MainRows : HiddenCellsOf(r) = {0}

\* ------------------------------------------------------------------- C6

\* The label/value rows of the sub row at place r that are shown, by index.
VisiblePairs(r) == {k - 1 : k \in {m \in DOMAIN table[r].pairs : ~table[r].pairs[m].hidden}}

\* C6: in every sub row, as addSubRow creates it and after every redraw, the
\* label/value row of original column index i is shown if and only if i + 1
\* is in the hidden set and i is not in expandedColumnFilterIndexes; it holds
\* the label and the value of column i.
C6_DetailRowsMirrorHiddenSet ==
    \A r \in DOMAIN table :
        table[r].sub =>
            /\ VisiblePairs(r) =
                  {i \in 0 .. (Len(table[r].pairs) - 1) :
                      (i + 1) \in HiddenSet /\ i \notin filter}
            /\ \A k \in DOMAIN table[r].pairs :
                  /\ table[r].pairs[k].cells[1].col = k - 1
                  /\ table[r].pairs[k].cells[2].col = k - 1

\* A sub row that a completed redraw has revisited since a narrower layout:
\* every column of the table has its label/value row, some shown, some not.
C6_Witness ==
    /\ redrawOutcome = "done"
    /\ \E r \in DOMAIN table :
          /\ table[r].sub
          /\ Len(table[r].pairs) = NbDataCols
          /\ VisiblePairs(r) # {}
          /\ VisiblePairs(r) # 0 .. (NbDataCols - 1)
          /\ table[r].cells[1].hidden = FALSE

\* ------------------------------------------------------------------- C7

\* The sub rows that follow the tr at place i of tbl, one after the other.
RECURSIVE SubRowsAfter(_, _)
SubRowsAfter(tbl, i) ==
    IF NextIsSubRow(tbl, i) THEN 1 + SubRowsAfter(tbl, i + 1) ELSE 0

\* C7: for any row, addSubRow followed by removeSubRow leaves the sequence of
\* rows as it was before the expansion, and addSubRow called twice in a row
\* leaves exactly one sub row after that row.
C7_ExpandCollapseRoundTrip ==
    phase = "listening" =>
        \A i \in MainRows :
            LET once  == addSubRow(table, i, columnsToHide).table
                twice == addSubRow(once, i, columnsToHide).table
            IN  /\ ~NextIsSubRow(table, i) => removeSubRow(once, i) = table
                /\ SubRowsAfter(twice, i) = 1

\* ------------------------------------------------------------------- C8

\* C8: in every state reached from listen() by clicks and resizes, each row
\* has at most one sub row, and a sub row follows a row if and only if that
\* row carries rth-expanded-row.
C8_MarkerMatchesSubRow ==
    phase = "listening" =>
        \A i \in MainRows :
            /\ SubRowsAfter(table, i) <= 1
            /\ table[i].expanded <=> NextIsSubRow(table, i)

\* ------------------------------------------------------------------- C9

\* C9: a list entry whose shifted index has no measured minimum width is not
\* fatal: no run of redraw throws, and listen() and the resize handler that
\* called it run to their end.
C9_InvalidEntryIsNotFatal ==
    /\ redrawOutcome # "threw"
    /\ phase # "aborted"
    /\ uncaught \notin {"listen", "resize"}

\* ------------------------------------------------------------------- C10

\* C10: when listen() returns the hidden set has been computed, whatever the
\* initial width, and a toggle click is handled without error.
C10_LayoutComputedAtInit ==
    phase = "listening" =>
        /\ columnsToHide # Undefined
        /\ uncaught # "click"

\* ------------------------------------------------------------------- C11

\* What a run of redraw at available width w leaves in this.columnsToHide when
\* no hidden set was stored before it: the list it computes, or nothing when
\* the run is left at js:355.
FreshHide(w) ==
    LET st == CollapseLoop(minWidths, w, CollapseStart(minWidths, columnsTotalWidth, list))
    IN  IF st.threw THEN Undefined ELSE ToggleRule(st.hide, filter)

\* C11: a run of redraw leaves options.collapsibleColumnIndexes, minWidths and
\* columnsTotalWidth as they were and keeps no memory of the hidden set before
\* it: after every resize the hidden set is the one that the current available
\* width alone determines, so that two runs at the same width agree.
C11_HiddenSetDependsOnWidthOnly ==
    [][(\E w \in WindowWidths : Resize(w)) =>
          /\ options' = options
          /\ minWidths' = minWidths
          /\ columnsTotalWidth' = columnsTotalWidth
          /\ columnsToHide' = FreshHide(availableWidth')]_vars

\* C11 on the runs of redraw that complete.
C11_CompletedRunDependsOnWidthOnly ==
    redrawOutcome = "done" => columnsToHide = FreshHide(availableWidth)

\* ------------------------------------------------------------------- C12

\* The worked scenario: a table of five columns, to which listen() adds the
\* toggle column; the outer widths of the six positions in whole pixels, that
\* of the toggle column first.
ScenarioWidths == <<40, 80, 80, 80, 80, 160>>

ScenarioColWidth ==
    [p \in 0 .. (Len(ScenarioWidths) - 1) |-> Px(ScenarioWidths[p + 1])]

ScenarioTable ==
    [r \in 1 .. NbRows |->
        Row(r, [c \in 1 .. (Len(ScenarioWidths) - 1) |->
                    Cell(IF r = 1 THEN "th" ELSE "td", "data", c - 1)])]

\* The priority list of the scenario as stated, whose entry 5 names no column
\* of the table, and the list that names the five columns from the last.
StatedList == <<5, 4, 3, 2, 1>>

ColumnsFromLast == <<4, 3, 2, 1, 0>>

ScenarioWindowWidths == {Px(ScenarioWidthStep * n) : n \in 0 .. ScenarioMaxSteps}

\* The helper constructed over the table of the scenario, with the default
\* filter (none) and either padding.
InitScenario ==
    /\ options \in [collapsibleColumnIndexes : {StatedList, ColumnsFromLast},
                    expandedColumnFilterIndexes : {{}},
                    padding : Paddings]
    /\ colOuterWidth = ScenarioColWidth
    /\ windowWidth \in ScenarioWindowWidths
    /\ containerOuterWidth = windowWidth
    /\ table = ScenarioTable
    /\ phase = "constructed"
    /\ minWidths = [p \in {} |-> 0]
    /\ columnsTotalWidth = 0
    /\ originalAvailableWidth = 0
    /\ initWindowWidth = 0
    /\ availableWidth = 0
    /\ columnsToHide = Undefined
    /\ redrawOutcome = "none"
    /\ uncaught = "none"

NextScenario ==
    \/ Listen
    \/ \E w \in ScenarioWindowWidths : Resize(w)
    \/ \E i \in 1 .. (2 * NbRows) : Click(i)

SpecScenario == InitScenario /\ [][NextScenario]_vars

\* C12 as stated: with minimum widths [40,80,80,80,80,160], priority list
\* [5,4,3,2,1] and an available width w, 280 <= w < 360, the hidden set is {6}.
C12_StatedListHidesSix ==
    (/\ list = StatedList
     /\ Px(280) <= availableWidth /\ availableWidth < Px(360))
    => HiddenSet = {6}

\* C12 amended: with minimum widths [40,80,80,80,80,160], priority list
\* [4,3,2,1,0], no filter and an available width w, 360 <= w < 520, the
\* hidden set is {5}: the last column, the widest, is hidden alone, in every
\* row.
C12_LastColumnHiddenAlone ==
    (/\ list = ColumnsFromLast
     /\ Px(360) <= availableWidth /\ availableWidth < Px(520))
    => /\ HiddenSet = {5}
       /\ \A r \in MainRows : HiddenCellsOf(r) = {5}

\* The window was narrowed into the range of the scenario and redraw hid the
\* last column.
C12_Witness ==
    /\ list = ColumnsFromLast
    /\ redrawOutcome = "done"
    /\ availableWidth < originalAvailableWidth
    /\ Px(360) <= availableWidth /\ availableWidth < Px(520)
    /\ 5 \in HiddenSet

\* ------------------------------------------------------------------- C13

\* The whole list consumed leaves the running total above the available
\* width: the loop of redraw can stop only for want of a candidate.
ListExhaustedInOverflow == availableWidth < RunningTotal(Len(list))

\* The positions of the listed columns that have a measured width.
ListedPositions == {list[i] + 1 : i \in DOMAIN list} \cap DOMAIN minWidths

\* The candidates that the loop of redraw takes from the list at the current
\* available width: one for each iteration that reaches js:342 with a
\* candidate left.
CandidatesTaken ==
    LET st == CollapseLoop(minWidths, availableWidth,
                  CollapseStart(minWidths, columnsTotalWidth, list))
    IN  Len(list) - Len(st.list)

\* C13: the loop of redraw takes at most length(collapsibleColumnIndexes)
\* candidates, whatever the available width; when the list is exhausted and
\* the running total still exceeds the available width, redraw completes
\* without error, every listed column that has a measured width is hidden, and
\* the toggle column stays shown as long as a hidden column is not filtered
\* out.
C13_OverflowAcceptedSilently ==
    /\ phase # "constructed" => CandidatesTaken <= Len(list)
    /\ (redrawOutcome # "none" /\ ListExhaustedInOverflow) =>
          /\ redrawOutcome = "done"
          /\ HiddenDataPositions = ListedPositions
          /\ SomethingToExpand =>
                /\ 0 \notin HiddenSet
                /\ \A r \in MainRows : 0 \notin HiddenCellsOf(r)

\* C13 on the runs of redraw that complete.
C13_OverflowOfCompletedRun ==
    (redrawOutcome = "done" /\ ListExhaustedInOverflow) =>
        /\ HiddenDataPositions = ListedPositions
        /\ SomethingToExpand =>
              /\ 0 \notin HiddenSet
              /\ \A r \in MainRows : 0 \notin HiddenCellsOf(r)

\* ------------------------------------------------------------------- C14

\* this.columnsToHide as listen() leaves it when it returns (js:248-250): the
\* hidden set of its run of redraw, or nothing when it ran none.
PostListenHide ==
    IF originalAvailableWidth < columnsTotalWidth
    THEN FreshHide(originalAvailableWidth)
    ELSE Undefined

\* The positions whose cells are hidden when listen() returns.
PostListenHiddenCells ==
    IF PostListenHide = Undefined THEN {} ELSE Range(PostListenHide)

\* C14: the available width is originalAvailableWidth less the difference of
\* initWindowWidth and the current window width; whenever the window is back at
\* its initial width, the available width, the hidden set and the cells hidden
\* in every row are those that listen() left.
C14_ResizeRoundTrip ==
    phase = "listening" =>
        /\ availableWidth = originalAvailableWidth - (initWindowWidth - windowWidth)
        /\ windowWidth = initWindowWidth =>
              /\ availableWidth = originalAvailableWidth
              /\ columnsToHide = PostListenHide
              /\ \A r \in MainRows : HiddenCellsOf(r) = PostListenHiddenCells

\* C14 for a table that did not fit when listen() ran.
C14_RoundTripWhenListenRedrew ==
    (phase = "listening" /\ originalAvailableWidth < columnsTotalWidth) =>
        /\ availableWidth = originalAvailableWidth - (initWindowWidth - windowWidth)
        /\ windowWidth = initWindowWidth =>
              /\ availableWidth = originalAvailableWidth
              /\ columnsToHide = PostListenHide
              /\ \A r \in MainRows : HiddenCellsOf(r) = PostListenHiddenCells

\* ------------------------------------------------------------------- C15

\* The rows of tbl without what is shown or hidden in them: which tr follows
\* which, and the classes rth-expanded-row and rth-sub-row of each.
Skeleton(tbl) ==
    [r \in DOMAIN tbl |->
        [id |-> tbl[r].id, expanded |-> tbl[r].expanded, sub |-> tbl[r].sub]]

\* The rows of tbl but the tr at place i and the sub row that follows it.
OtherRows(tbl, i) ==
    LET own    == IF NextIsSubRow(tbl, i) THEN {i, i + 1} ELSE {i}
        places == SelectSeq([k \in 1 .. Len(tbl) |-> k], LAMBDA k : k \notin own)
    IN  [j \in 1 .. Len(places) |-> tbl[places[j]]]

\* C15: a resize event changes no row's expanded marker and creates or removes
\* no sub row; a click on the toggle button of a row changes neither the hidden
\* set nor the available width nor any cell of another row.
C15_LayoutAndDetailIndependent ==
    [][/\ (\E w \in WindowWidths : Resize(w)) => Skeleton(table') = Skeleton(table)
       /\ \A i \in 1 .. (2 * NbRows) :
             Click(i) =>
                /\ columnsToHide' = columnsToHide
                /\ availableWidth' = availableWidth
                /\ OtherRows(table', i) = OtherRows(table, i)]_vars

\* A row was expanded and the window resized since: the sub row is there, with
\* a hidden column to show, at a width other than the initial one.
C15_Witness ==
    /\ redrawOutcome = "done"
    /\ uncaught = "none"
    /\ availableWidth # originalAvailableWidth
    /\ HiddenDataPositions # {}
    /\ \E r \in DOMAIN table :
          /\ table[r].sub
          /\ VisiblePairs(r) # {}
          /\ table[r - 1].expanded

\* ------------------------------------------------------------------- C16

\* What addSubRow built in each row of tbl: the label/value rows and what
\* their cells hold, whatever is shown of them.
Built(tbl) ==
    [r \in DOMAIN tbl |->
        [k \in DOMAIN tbl[r].pairs |->
            [c \in DOMAIN tbl[r].pairs[k].cells |->
                <<tbl[r].pairs[k].cells[c].kind, tbl[r].pairs[k].cells[c].col>>]]]

\* C16: a run of redraw that a resize starts and that computes a hidden set
\* leaves every sub row in place as it was built, after a row that is still
\* marked expanded, with its spanning cell hidden if the hidden set holds the
\* toggle column (position 0) and shown if it does not.
C16_SubRowsFollowToggleColumn ==
    [][((\E w \in WindowWidths : Resize(w)) /\ redrawOutcome' = "done") =>
          /\ Skeleton(table') = Skeleton(table)
          /\ Built(table') = Built(table)
          /\ \A r \in DOMAIN table' :
                table'[r].sub =>
                   /\ table'[r].cells[1].hidden <=> 0 \in Range(columnsToHide')
                   /\ table'[r - 1].expanded]_vars

\* A sub row that was built while the toggle column was shown is hidden, with
\* the toggle column, by a later run of redraw; its row is still marked.
C16_Witness ==
    /\ redrawOutcome = "done"
    /\ 0 \in HiddenSet
    /\ \E r \in DOMAIN table :
          /\ table[r].sub
          /\ table[r].pairs # <<>>
          /\ table[r].cells[1].hidden
          /\ table[r - 1].expanded

\* ------------------------------------------------------------------- C17

\* C17: in every sub row that is shown, each label/value row that is shown
\* has its label cell and its value cell shown: hideColumns hides cells of the
\* rows of the table, none of the nested table.
C17_DetailCellsShown ==
    \A r \in DOMAIN table :
        (table[r].sub /\ ~table[r].cells[1].hidden) =>
            \A k \in DOMAIN table[r].pairs :
                ~table[r].pairs[k].hidden =>
                    /\ ~table[r].pairs[k].cells[1].hidden
                    /\ ~table[r].pairs[k].cells[2].hidden

\* ------------------------------------------------------------------- C18

\* Tables whose rows need not have the same number of cells.
RaggedTables ==
    {[r \in 1 .. NbRows |->
         Row(r, [c \in 1 .. len[r] |->
                     Cell(IF r = 1 THEN "th" ELSE "td", "data", c - 1)])] :
     len \in [1 .. NbRows -> 1 .. MaxRowCells]}

\* A helper constructed over such a table, with the default options.
InitAddColumn ==
    /\ options = [collapsibleColumnIndexes |-> <<>>,
                  expandedColumnFilterIndexes |-> {},
                  padding |-> [auto |-> TRUE, value |-> 0]]
    /\ colOuterWidth = [p \in Positions |-> Px(1)]
    /\ windowWidth = Px(MaxWindowWidth)
    /\ containerOuterWidth = windowWidth
    /\ table \in RaggedTables
    /\ phase = "constructed"
    /\ minWidths = [p \in {} |-> 0]
    /\ columnsTotalWidth = 0
    /\ originalAvailableWidth = 0
    /\ initWindowWidth = 0
    /\ availableWidth = 0
    /\ columnsToHide = Undefined
    /\ redrawOutcome = "none"
    /\ uncaught = "none"

\* The table is small enough for one more call.
RoomForColumn == \A r \in DOMAIN table : Len(table[r].cells) <= MaxRowCells + 1

\* The caller calls addColumn(position, content) with a number.
CallAddColumn(position) ==
    /\ phase = "constructed"
    /\ RoomForColumn
    /\ table' = addColumn(table, position)
    /\ UNCHANGED <<options, colOuterWidth, containerOuterWidth, windowWidth, phase,
                   minWidths, columnsTotalWidth, originalAvailableWidth,
                   initWindowWidth, availableWidth, columnsToHide, redrawOutcome,
                   uncaught>>

\* The caller calls addColumn(null, content).
CallAddColumnNull ==
    /\ phase = "constructed"
    /\ RoomForColumn
    /\ table' = AppendColumnFrom(table, 1)
    /\ UNCHANGED <<options, colOuterWidth, containerOuterWidth, windowWidth, phase,
                   minWidths, columnsTotalWidth, originalAvailableWidth,
                   initWindowWidth, availableWidth, columnsToHide, redrawOutcome,
                   uncaught>>

NextAddColumn ==
    \/ \E position \in 0 .. MaxRowCells : CallAddColumn(position)
    \/ CallAddColumnNull

SpecAddColumn == InitAddColumn /\ [][NextAddColumn]_vars

\* The cell that addColumn adds to a row: a clone of its first cell, holding
\* the content given.
AddedCell(cells) == Cell(cells[1].tag, "extra", 0)

Min(a, b) == IF a < b THEN a ELSE b

\* C18: addColumn(position, content) adds exactly one cell to every row,
\* before the cell at index min(position, n - 1), n being the number of cells
\* of that row before the call, whatever the rows before it hold; with
\* position null the cell is added after the last cell.
C18_ColumnAddedPerRow ==
    [][/\ \A position \in 0 .. MaxRowCells :
             CallAddColumn(position) =>
                \A r \in DOMAIN table :
                    table'[r].cells =
                        InsertAt(table[r].cells,
                                 Min(position, Len(table[r].cells) - 1) + 1,
                                 AddedCell(table[r].cells))
       /\ CallAddColumnNull =>
             \A r \in DOMAIN table :
                 table'[r].cells = Append(table[r].cells, AddedCell(table[r].cells))]_vars

\* C18, what follows for listen(): once it has run, the toggle cell is at
\* index 0 of every row of the table and data column i at index i + 1.
C18_ToggleColumnFirstAfterListen ==
    phase # "constructed" =>
        \A r \in MainRows :
            /\ Len(table[r].cells) = NbDataCols + 1
            /\ table[r].cells[1].kind = "extra"
            /\ \A i \in DataCols :
                  /\ table[r].cells[i + 2].kind = "data"
                  /\ table[r].cells[i + 2].col = i

\* ------------------------------------------------------------------- C19

\* The positions hidden once the first k entries of the list are consumed.
HiddenAfter(k) == {list[i] + 1 : i \in 1 .. k} \cap DOMAIN minWidths

\* The minimum widths of the positions that are not in the set hidden.
WidthLeft(hidden) == SumOver(minWidths, DOMAIN minWidths \ hidden)

\* No position is held twice.
NoRepeat(s) == \A i, j \in DOMAIN s : i # j => s[i] # s[j]

\* C19: at every iteration of the loop of redraw the running total is the sum
\* of the minimum widths of the columns not yet hidden, whatever the list
\* holds; hence a loop that stops with candidates left has brought the sum of
\* the minimum widths of the columns still shown to availableWidth or less,
\* and the hidden set holds no position twice.
C19_RunningTotalIsWidthLeft ==
    redrawOutcome # "none" =>
        /\ \A k \in 0 .. CandidatesTaken : RunningTotal(k) = WidthLeft(HiddenAfter(k))
        /\ (redrawOutcome = "done" /\ CandidatesTaken < Len(list)) =>
              WidthLeft(HiddenDataPositions) <= availableWidth
        /\ columnsToHide # Undefined => NoRepeat(columnsToHide)

\* C19 for a list without repeated entries and a total of whole pixels.
C19_WidthLeftWithoutRepeats ==
    (/\ redrawOutcome # "none"
     /\ NoRepeat(list)
     /\ ParseInt(columnsTotalWidth) = columnsTotalWidth) =>
        /\ \A k \in 0 .. CandidatesTaken : RunningTotal(k) = WidthLeft(HiddenAfter(k))
        /\ (redrawOutcome = "done" /\ CandidatesTaken < Len(list)) =>
              WidthLeft(HiddenDataPositions) <= availableWidth
        /\ columnsToHide # Undefined => NoRepeat(columnsToHide)

====
